---------------------------- MODULE Spec2Model ----------------------------
(***************************************************************************)
(* A model of falsh (src/src/main.rs): the tokenizer split_args, the PATH  *)
(* store (add_to_path, load/save of ~/.falsh_path, list_path), and the     *)
(* pipeline executor execute_line with the processes it spawns.            *)
(*                                                                         *)
(* A string is a sequence of atoms.  Every character the code inspects is  *)
(* an atom of its own (" ", "'", "\"", "|", ">", "<", "*", "?", "=", ":",  *)
(* "/", "\t", "\r", "\n"); a run of other characters is one opaque atom    *)
(* ("echo", "hello").                                                      *)
(***************************************************************************)
EXTENDS Integers, Sequences, FiniteSets, TLC

VARIABLES
    tInput,     \* tokenizer: the input string of split_args
    tArgs,      \* tokenizer: split_args(tInput)
    tRe,        \* tokenizer: split_args of tArgs joined with single spaces
    tPc,        \* tokenizer: "input" | "split" | "rejoined"
    pc,         \* where the shell is: "main" | "rc" | "prompt" | "exec" |
                \*   "wait" | "pathTool" | "returned" | "exited" | "panicked"
    caller,     \* who called execute_line: "rc" | "interactive"
    input,      \* execute_line: its argument
    pipeline,   \* execute_line: the trimmed segments of input
    i,          \* execute_line: the index of the stage at hand (from 1)
    previous_output, \* execute_line: 0 (None) or the pipe whose read end it holds
    result,     \* execute_line: "none" while running, then "Ok" or the error
    cwd,        \* the process's working directory
    files,      \* the files f and g of the home directory
    pathEnv,    \* the environment variable PATH
    pathFile,   \* ~/.falsh_path: [exists, text]
    procs,      \* the child processes spawned by this execute_line call
    pipes,      \* the pipes created by this execute_line call
    termOut,    \* what this call wrote to the shell's own standard output
    stageLog,   \* history: what this call did with each stage it reached
    uiPaths,    \* list_path: paths
    selected,   \* list_path: selected
    lastOp,     \* history: the last add_to_path or removal
    pathFile0,  \* history: ~/.falsh_path when main or the execute_line call
                \*   at hand was entered
    rcFile,     \* ~/.falshrc: [exists, lines]
    rcIdx,      \* load_falshrc: idx (from 0)
    rcLog       \* history: the execute_line calls of load_falshrc

tokVars == <<tInput, tArgs, tRe, tPc>>
lineVars == <<caller, input, pipeline, i, previous_output, result>>
envVars == <<cwd, files, pathEnv, pathFile>>
procVars == <<procs, pipes, termOut, stageLog>>
uiVars == <<uiPaths, selected>>
histVars == <<lastOp, pathFile0>>
rcVars == <<rcFile, rcIdx, rcLog>>
shellVars == <<pc, lineVars, envVars, procVars, uiVars, histVars, rcVars>>
vars == <<tokVars, shellVars>>

(***************************************************************************)
(* Bounds.                                                                 *)
(***************************************************************************)
MaxLen == 5         \* longest tokenizer input, in characters
MaxStages == 3      \* most stages in a line of the executor's specification
PipeCap == 3        \* capacity of a pipe buffer, in atoms
MaxPersisted == 3   \* lines are typed while ~/.falsh_path has at most this many
MaxRcLines == 3     \* most lines of ~/.falshrc

(***************************************************************************)
(* Generic helpers on sequences.                                           *)
(***************************************************************************)
SeqsUpTo(S, n) == UNION {[1..k -> S] : k \in 0..n}

Range(s) == {s[k] : k \in 1..Len(s)}

RECURSIVE JoinWith(_, _)
JoinWith(ss, sep) ==
    IF ss = <<>> THEN <<>>
    ELSE IF Len(ss) = 1 THEN Head(ss)
    ELSE Head(ss) \o <<sep>> \o JoinWith(Tail(ss), sep)

(***************************************************************************)
(* split_args (main.rs 64-84).  The match arms of lines 73-79, one         *)
(* operator per guard or effect, then the scan and the final push.         *)
(***************************************************************************)
SingleQuoteArmMutIgnoresDouble(ch, in_double) == ch = "'"

SingleQuoteArm(ch, in_double) == ch = "'" /\ ~in_double

DoubleQuoteArm(ch, in_single) == ch = "\"" /\ ~in_single

SpaceArm(ch, in_single, in_double) == ch = " " /\ ~in_single /\ ~in_double

PushCurrent(args, current) ==
    IF current # <<>> THEN Append(args, current) ELSE args

ClearCurrentMutKeeps(current) == current

ClearCurrent(current) == <<>>

RECURSIVE SplitScan(_, _, _, _, _)
SplitScan(chars, args, current, in_single, in_double) ==
    IF chars = <<>> THEN PushCurrent(args, current)
    ELSE LET ch == Head(chars) IN
         CASE SingleQuoteArm(ch, in_double) ->
                  SplitScan(Tail(chars), args, current, ~in_single, in_double)
           [] DoubleQuoteArm(ch, in_single) ->
                  SplitScan(Tail(chars), args, current, in_single, ~in_double)
           [] SpaceArm(ch, in_single, in_double) ->
                  SplitScan(Tail(chars), PushCurrent(args, current),
                            IF current # <<>> THEN ClearCurrent(current)
                                              ELSE current,
                            in_single, in_double)
           [] OTHER ->
                  SplitScan(Tail(chars), args, Append(current, ch),
                            in_single, in_double)

split_args(str) == SplitScan(str, <<>>, <<>>, FALSE, FALSE)

(***************************************************************************)
(* String operations of the standard library that the code calls.          *)
(***************************************************************************)
Whitespace == {" ", "\t", "\r", "\n"}

RECURSIVE TrimStart(_)
TrimStart(s) ==
    IF s # <<>> /\ Head(s) \in Whitespace THEN TrimStart(Tail(s)) ELSE s

RECURSIVE TrimEnd(_)
TrimEnd(s) ==
    IF s # <<>> /\ s[Len(s)] \in Whitespace
    THEN TrimEnd(SubSeq(s, 1, Len(s) - 1)) ELSE s

\* str::trim
Trim(s) == TrimEnd(TrimStart(s))

\* str::split(ch): the pieces between the occurrences of ch, empty ones kept
RECURSIVE SplitOn(_, _, _)
SplitOn(s, ch, piece) ==
    IF s = <<>> THEN <<piece>>
    ELSE IF Head(s) = ch THEN <<piece>> \o SplitOn(Tail(s), ch, <<>>)
    ELSE SplitOn(Tail(s), ch, Append(piece, Head(s)))

Split(s, ch) == SplitOn(s, ch, <<>>)

\* Iterator::position / str::find: the first index holding x, 0 when none
Position(s, x) ==
    IF \E k \in 1..Len(s) : s[k] = x
    THEN CHOOSE k \in 1..Len(s) : s[k] = x /\ \A j \in 1..(k - 1) : s[j] # x
    ELSE 0

Contains(s, x) == \E k \in 1..Len(s) : s[k] = x

\* BufRead::lines: the text cut at "\n"; a "\r" before the "\n" is dropped
\* with it, a last line without "\n" is a line, an empty text has no line.
RECURSIVE LinesOf(_, _)
LinesOf(text, line) ==
    IF text = <<>> THEN (IF line = <<>> THEN <<>> ELSE <<line>>)
    ELSE IF Head(text) = "\n"
         THEN <<IF line # <<>> /\ line[Len(line)] = "\r"
                THEN SubSeq(line, 1, Len(line) - 1) ELSE line>>
              \o LinesOf(Tail(text), <<>>)
    ELSE LinesOf(Tail(text), Append(line, Head(text)))

(***************************************************************************)
(* The file system the shell runs in.  The home directory /h is writable   *)
(* and holds the directory d and, when they exist, the files f and g.      *)
(* /h/d is empty and not writable.  /bin is a directory holding the        *)
(* program file t; no file is named /n followed by a carriage return.     *)
(***************************************************************************)
HomeDir == <<"/", "h">>
SubDir == <<"/", "h", "/", "d">>
BinDir == <<"/", "bin">>
BinTool == <<"/", "bin", "/", "t">>
CrPath == <<"/", "n", "\r">>
FlagTemp == <<"--temp">>

FileNames == {"f", "g"}

NoFile == [exists |-> FALSE, data |-> <<>>]

\* the key in files of the file that a path names, "none" when it names none
FileKey(dir, path) ==
    IF dir = HomeDir /\ Len(path) = 1 /\ path[1] \in FileNames
    THEN path[1] ELSE "none"

\* fs::metadata of a path given to add_to_path: "file", "dir" or "none"
Metadata(path) ==
    CASE path \in {HomeDir, SubDir, BinDir} -> "dir"
      [] path = BinTool -> "file"
      [] OTHER -> "none"

\* Path::parent: the path without its last component
Parent(path) ==
    LET slashes == {k \in 1..Len(path) : path[k] = "/"} IN
    IF slashes = {} THEN <<>>
    ELSE LET last == CHOOSE k \in slashes : \A j \in slashes : j <= k IN
         IF last = 1 THEN <<"/">> ELSE SubSeq(path, 1, last - 1)

\* the directory env::set_current_dir(path) moves to from dir, <<>> on error
ChdirTarget(dir, path) ==
    CASE path = HomeDir -> HomeDir
      [] path = SubDir -> SubDir
      [] dir = HomeDir /\ path = <<"d">> -> SubDir
      [] OTHER -> <<>>

(***************************************************************************)
(* expand_globs (main.rs 86-98) over the glob crate.  A pattern with three *)
(* consecutive "*" does not compile and glob(..).unwrap() panics.  The     *)
(* matches are the entries of the working directory, in name order.        *)
(***************************************************************************)
IsPattern(arg) == Contains(arg, "*") \/ Contains(arg, "?")

InvalidPattern(arg) ==
    \E k \in 1..(Len(arg) - 2) : arg[k] = "*" /\ arg[k+1] = "*" /\ arg[k+2] = "*"

RECURSIVE GlobMatch(_, _)
GlobMatch(pat, name) ==
    IF pat = <<>> THEN name = <<>>
    ELSE IF Head(pat) = "*"
         THEN GlobMatch(Tail(pat), name)
              \/ (name # <<>> /\ GlobMatch(pat, Tail(name)))
    ELSE IF Head(pat) = "?"
         THEN name # <<>> /\ GlobMatch(Tail(pat), Tail(name))
    ELSE name # <<>> /\ Head(name) = Head(pat) /\ GlobMatch(Tail(pat), Tail(name))

\* the entries of dir in name order
DirEntries(dir, fs) ==
    IF dir = HomeDir
    THEN << <<"d">> >>
         \o (IF fs["f"].exists THEN << <<"f">> >> ELSE <<>>)
         \o (IF fs["g"].exists THEN << <<"g">> >> ELSE <<>>)
    ELSE <<>>

RECURSIVE SelectMatches(_, _)
SelectMatches(pat, entries) ==
    IF entries = <<>> THEN <<>>
    ELSE (IF GlobMatch(pat, Head(entries)) THEN <<Head(entries)>> ELSE <<>>)
         \o SelectMatches(pat, Tail(entries))

GlobPanics(args) ==
    \E k \in 1..Len(args) : IsPattern(args[k]) /\ InvalidPattern(args[k])

RECURSIVE expand_globs(_, _, _)
expand_globs(args, dir, fs) ==
    IF args = <<>> THEN <<>>
    ELSE (IF IsPattern(Head(args))
          THEN SelectMatches(Head(args), DirEntries(dir, fs))
          ELSE <<Head(args)>>)
         \o expand_globs(Tail(args), dir, fs)

(***************************************************************************)
(* The PATH store (main.rs 125-172, 223-227).                              *)
(***************************************************************************)
\* load_persistent_paths: the lines of ~/.falsh_path, none when it is absent
load_persistent_paths(file) ==
    IF ~file.exists THEN <<>> ELSE LinesOf(file.text, <<>>)

RECURSIVE WriteLines(_)
WriteLines(paths) ==
    IF paths = <<>> THEN <<>>
    ELSE Head(paths) \o <<"\n">> \o WriteLines(Tail(paths))

\* save_persistent_paths: File::create, then one writeln! per path
save_persistent_paths(paths) == [exists |-> TRUE, text |-> WriteLines(paths)]

\* add_to_path 141-154: the string that goes into PATH for user_input
Resolve(user_input) ==
    IF Metadata(user_input) = "file" THEN Parent(user_input) ELSE user_input

\* add_to_path 156-162: the persisted file after the call
Persist(file, user_input, temporary) ==
    IF ~temporary /\ ~Contains(load_persistent_paths(file), user_input)
    THEN save_persistent_paths(Append(load_persistent_paths(file), user_input))
    ELSE file

\* add_to_path 164-171: PATH after the call
AppendToPathEnv(path_env, add_str) ==
    IF ~Contains(Split(path_env, ":"), add_str)
    THEN (IF path_env # <<>> THEN Append(path_env, ":") ELSE path_env) \o add_str
    ELSE path_env

\* main 336-343: PATH with "/bin" pushed onto its split_paths
MainInitialPath(path) == JoinWith(Append(Split(path, ":"), BinDir), ":")

(***************************************************************************)
(* The state that one step of the shell reads and writes, as a record, so  *)
(* that the handlers below are functions from state to state.              *)
(***************************************************************************)
St == [pc |-> pc, i |-> i, previous_output |-> previous_output,
       result |-> result, cwd |-> cwd, files |-> files,
       pathEnv |-> pathEnv, pathFile |-> pathFile, procs |-> procs,
       pipes |-> pipes, termOut |-> termOut, stageLog |-> stageLog,
       uiPaths |-> uiPaths, selected |-> selected, lastOp |-> lastOp]

Becomes(st) ==
    /\ pc' = st.pc
    /\ i' = st.i
    /\ previous_output' = st.previous_output
    /\ result' = st.result
    /\ cwd' = st.cwd
    /\ files' = st.files
    /\ pathEnv' = st.pathEnv
    /\ pathFile' = st.pathFile
    /\ procs' = st.procs
    /\ pipes' = st.pipes
    /\ termOut' = st.termOut
    /\ stageLog' = st.stageLog
    /\ uiPaths' = st.uiPaths
    /\ selected' = st.selected
    /\ lastOp' = st.lastOp

\* the atoms of str as output written by src (0: the shell, k: stage k's child)
Emit(src, str) == [k \in 1..Len(str) |-> [src |-> src, data |-> str[k]]]

\* println!
println(st, str) == [st EXCEPT !.termOut = @ \o Emit(0, Append(str, "\n"))]

Logged(st, kind, failed) ==
    [st EXCEPT !.stageLog =
        Append(@, [stage |-> st.i, kind |-> kind, failed |-> failed])]

ContinueMutDropsOutput(st) == [st EXCEPT !.i = @ + 1, !.previous_output = 0]

\* `continue`: on to the next segment of the pipeline
Continue(st) == [st EXCEPT !.i = @ + 1]

\* `return Err(..)` and the `?` operator
ReturnErr(st, e) == [st EXCEPT !.pc = "returned", !.result = e]

\* a panic of the main thread: the process is gone
Panic(st) == [st EXCEPT !.pc = "panicked"]

NoOp == [op |-> "none", input |-> <<>>, temporary |-> FALSE, index |-> 0]

(***************************************************************************)
(* The built-ins (main.rs 100-111, 140-172, 241-273).                      *)
(***************************************************************************)
\* change_dir: a failure is printed, nothing is returned
change_dir(st, path) ==
    IF ChdirTarget(st.cwd, path) # <<>>
    THEN [st EXCEPT !.cwd = ChdirTarget(st.cwd, path)]
    ELSE println(st, <<"cd failed">>)

\* "cd" arm, 241-245
CdStage(st, args) ==
    IF Len(args) > 1
    THEN Continue(Logged(change_dir(st, args[2]), "builtin",
                         ChdirTarget(st.cwd, args[2]) = <<>>))
    ELSE ReturnErr(Logged(st, "builtin", TRUE), "cd: missing argument")

\* "pwd" arm, 246, and print_working_dir
PwdStage(st) == Continue(Logged(println(st, st.cwd), "builtin", FALSE))

\* add_to_path, 140-172
add_to_path(st, user_input, temporary) ==
    LET warned == IF Metadata(user_input) = "none"
                  THEN println(st, <<"Warning: path does not exist">>)
                  ELSE st
    IN [warned EXCEPT
            !.pathFile = Persist(st.pathFile, user_input, temporary),
            !.pathEnv = AppendToPathEnv(st.pathEnv, Resolve(user_input)),
            !.lastOp = [op |-> "add", input |-> user_input,
                        temporary |-> temporary, index |-> 0]]

\* the argument of the "addToPath" arm that is handed to add_to_path, 249
PathArg(args) == args[2]

\* "addToPath" arm, 247-252
AddToPathStage(st, args) ==
    LET temporary == \E k \in 1..Len(args) : args[k] = FlagTemp IN
    IF Len(args) > 1
    THEN Continue(Logged(add_to_path(st, PathArg(args), temporary),
                         "builtin", FALSE))
    ELSE ReturnErr(Logged(st, "builtin", TRUE), "addToPath: missing argument")

\* "pathTool" arm, 253, up to the first event::read of list_path (182-199)
PathToolStage(st) ==
    [Logged(st, "builtin", FALSE) EXCEPT
        !.pc = "pathTool",
        !.uiPaths = load_persistent_paths(st.pathFile),
        !.selected = 0]

\* env::set_var(key, value): it panics on an empty key; of the environment
\* only PATH is part of the state
set_var(st, key, value) ==
    CASE key = <<>> -> Panic(st)
      [] key = <<"PATH">> -> [st EXCEPT !.pathEnv = value]
      [] OTHER -> st

\* the loop of the "export" arm over args[1..], 256-266
RECURSIVE ExportEach(_, _)
ExportEach(st, assignments) ==
    IF assignments = <<>> \/ st.pc = "panicked" THEN st
    ELSE LET var_assignment == Head(assignments)
             eq_pos == Position(var_assignment, "=")
         IN IF eq_pos # 0
            THEN ExportEach(set_var(st, SubSeq(var_assignment, 1, eq_pos - 1),
                                    SubSeq(var_assignment, eq_pos + 1,
                                           Len(var_assignment))),
                            Tail(assignments))
            ELSE ExportEach(println(st, <<"export: invalid syntax">>),
                            Tail(assignments))

\* "export" arm, 254-273
ExportStage(st, args) ==
    IF Len(args) > 1
    THEN LET done == ExportEach(st, Tail(args))
             malformed == \E k \in 2..Len(args) : ~Contains(args[k], "=")
         IN IF done.pc = "panicked" THEN done
            ELSE Continue(Logged(done, "builtin", malformed))
    ELSE Continue(Logged(println(st, <<"PATH", "=">> \o st.pathEnv),
                         "builtin", FALSE))

Builtins == {<<"cd">>, <<"pwd">>, <<"addToPath">>, <<"pathTool">>, <<"export">>}

(***************************************************************************)
(* External stages (main.rs 277-304) and the processes they spawn.         *)
(* A handle is the shell's own stream, an end of a pipe, or an open file.  *)
(***************************************************************************)
Inherit == [kind |-> "inherit", id |-> 0, key |-> "none"]
PipeEnd(k) == [kind |-> "pipe", id |-> k, key |-> "none"]
FileHandle(key) == [kind |-> "file", id |-> 0, key |-> key]

\* The programs on PATH: echo writes its arguments, cat copies its input,
\* wc writes the number of words of its input, big writes more than a pipe
\* holds.  Any other name cannot be spawned.
Programs == {"echo", "cat", "wc", "big"}

ProgReads(name) == name \in {"cat", "wc"}

\* what a child reads from the shell's own input before end-of-file
TermInput == <<"typed", "\n">>

RECURSIVE WordCount(_, _)
WordCount(str, in_word) ==
    IF str = <<>> THEN 0
    ELSE IF Head(str) \in Whitespace THEN WordCount(Tail(str), FALSE)
    ELSE (IF in_word THEN 0 ELSE 1) + WordCount(Tail(str), TRUE)

Digits == <<"0", "1", "2", "3", "4", "5", "6", "7", "8", "9">>

ProgOutput(name, args, got) ==
    CASE name = "echo" -> Append(JoinWith(args, " "), "\n")
      [] name = "cat" -> got
      [] name = "wc" -> <<Digits[WordCount(got, FALSE) + 1], "\n">>
      [] OTHER -> [k \in 1..(PipeCap + 1) |-> "x"]

\* 280-285: the '>' of a stage.  [ok, st, args, target]
RedirectOut(st, args) ==
    LET pos == Position(args, <<">">>) IN
    IF pos = 0
    THEN [ok |-> TRUE, st |-> st, args |-> args, target |-> Inherit]
    ELSE IF pos + 1 <= Len(args)
    THEN LET key == FileKey(st.cwd, args[pos + 1]) IN
         IF key = "none"
         THEN [ok |-> FALSE, st |-> ReturnErr(st, "File::create failed"),
               args |-> args, target |-> Inherit]
         ELSE [ok |-> TRUE,
               st |-> [st EXCEPT !.files[key] = [exists |-> TRUE, data |-> <<>>]],
               args |-> SubSeq(args, 1, pos - 1),
               target |-> FileHandle(key)]
    ELSE [ok |-> FALSE,
          st |-> ReturnErr(st, "Syntax error: '>' requires a filename"),
          args |-> args, target |-> Inherit]

\* 287-292: the '<' of a stage, on the arguments RedirectOut left.
\* [ok, st, args, source]
RedirectIn(st, args, stdin_source) ==
    LET pos == Position(args, <<"<">>) IN
    IF pos = 0
    THEN [ok |-> TRUE, st |-> st, args |-> args, source |-> stdin_source]
    ELSE IF pos + 1 <= Len(args)
    THEN LET key == FileKey(st.cwd, args[pos + 1]) IN
         IF key = "none" \/ ~st.files[key].exists
         THEN [ok |-> FALSE, st |-> ReturnErr(st, "File::open failed"),
               args |-> args, source |-> stdin_source]
         ELSE [ok |-> TRUE, st |-> st, args |-> SubSeq(args, 1, pos - 1),
               source |-> FileHandle(key)]
    ELSE [ok |-> FALSE,
          st |-> ReturnErr(st, "Syntax error: '<' requires a filename"),
          args |-> args, source |-> stdin_source]

\* 299: whether the child's standard output is a new pipe
StdoutPipedMutNever(stage, n) == FALSE

StdoutPiped(stage, n) == stage < n

\* 294-303: expand the arguments, spawn the child, keep its output handle
Spawn(st, args, stdin_source, stdout_target, n) ==
    IF args = <<>> \/ GlobPanics(Tail(args)) THEN Panic(st)
    ELSE IF ~(Len(args[1]) = 1 /\ args[1][1] \in Programs)
    THEN ReturnErr(Logged(st, "spawn", TRUE), "Command failed")
    ELSE LET name == args[1][1]
             args_expanded == expand_globs(Tail(args), st.cwd, st.files)
             piped == StdoutPiped(st.i, n)
             pipe == Len(st.pipes) + 1
             child == [stage |-> st.i, name |-> name, args |-> args_expanded,
                       stdin |-> stdin_source,
                       stdout |-> IF piped THEN PipeEnd(pipe) ELSE stdout_target,
                       state |-> "running", eof |-> FALSE, got |-> <<>>,
                       pending |-> IF ProgReads(name) THEN <<>>
                                   ELSE ProgOutput(name, args_expanded, <<>>),
                       wrote |-> <<>>]
         IN [Logged(st, "spawn", FALSE) EXCEPT
                !.pc = "wait",
                !.procs = Append(@, child),
                !.pipes = IF piped
                          THEN Append(@, [buf |-> <<>>, written |-> <<>>,
                                          writerOpen |-> TRUE])
                          ELSE @,
                !.previous_output = IF piped THEN pipe ELSE 0]

\* 277-304: a stage that is no built-in
ExternalStage(st, args, n) ==
    LET stdin_source == IF st.previous_output # 0
                        THEN PipeEnd(st.previous_output) ELSE Inherit
        moved == [st EXCEPT !.previous_output = 0]
        out == RedirectOut(moved, args)
        in == RedirectIn(out.st, out.args, stdin_source)
    IN IF ~out.ok THEN Logged(out.st, "redirect", TRUE)
       ELSE IF ~in.ok THEN Logged(in.st, "redirect", TRUE)
       ELSE Spawn(in.st, in.args, in.source, out.target, n)

\* 236-305: one turn of the for loop, up to `continue`, a return, the wait
\* for the child, or the Ok(()) after the last segment
StageStep(st, segments) ==
    IF st.i > Len(segments) THEN [st EXCEPT !.pc = "returned", !.result = "Ok"]
    ELSE LET args == split_args(segments[st.i]) IN
         IF args = <<>> THEN Continue(Logged(st, "empty", FALSE))
         ELSE CASE args[1] = <<"cd">> -> CdStage(st, args)
                [] args[1] = <<"pwd">> -> PwdStage(st)
                [] args[1] = <<"addToPath">> -> AddToPathStage(st, args)
                [] args[1] = <<"pathTool">> -> PathToolStage(st)
                [] args[1] = <<"export">> -> ExportStage(st, args)
                [] OTHER -> ExternalStage(st, args, Len(segments))

ExecStage ==
    /\ pc = "exec"
    /\ \E st \in {StageStep(St, pipeline)} : Becomes(st)
    /\ UNCHANGED <<tokVars, caller, input, pipeline, pathFile0, rcVars>>

\* 304: child.wait() returns once the child has exited
WaitDoneMutNoWait(child) == TRUE

WaitDone(child) == child.state = "exited"

WaitReturn ==
    /\ pc = "wait"
    /\ WaitDone(procs[Len(procs)])
    /\ pc' = "exec"
    /\ i' = i + 1
    /\ UNCHANGED <<tokVars, caller, input, pipeline, previous_output, result,
                   envVars, procVars, uiVars, histVars, rcVars>>

(***************************************************************************)
(* The children.  A child that reads takes what its standard input holds   *)
(* and sees end-of-file once the writer of a pipe is gone; it writes one   *)
(* atom at a time and blocks while a pipe is full; it exits after its last *)
(* write.                                                                  *)
(***************************************************************************)
PipeFullMutNever(buf) == FALSE

\* a write to a pipe blocks while the pipe holds PipeCap atoms
PipeFull(buf) == Len(buf) >= PipeCap

ChildRead(k) ==
    LET p == procs[k] IN
    /\ p.state = "running"
    /\ ProgReads(p.name)
    /\ ~p.eof
    /\ CASE p.stdin.kind = "pipe" ->
              LET q == pipes[p.stdin.id]
                  all == p.got \o q.buf
              IN /\ q.buf # <<>> \/ ~q.writerOpen
                 /\ pipes' = [pipes EXCEPT ![p.stdin.id].buf = <<>>]
                 /\ procs' = [procs EXCEPT
                        ![k].got = all,
                        ![k].eof = ~q.writerOpen,
                        ![k].pending = IF ~q.writerOpen
                                       THEN ProgOutput(p.name, p.args, all)
                                       ELSE <<>>]
         [] p.stdin.kind = "file" ->
              /\ procs' = [procs EXCEPT
                        ![k].got = files[p.stdin.key].data,
                        ![k].eof = TRUE,
                        ![k].pending = ProgOutput(p.name, p.args,
                                                  files[p.stdin.key].data)]
              /\ pipes' = pipes
         [] OTHER ->
              /\ procs' = [procs EXCEPT
                        ![k].got = TermInput,
                        ![k].eof = TRUE,
                        ![k].pending = ProgOutput(p.name, p.args, TermInput)]
              /\ pipes' = pipes
    /\ UNCHANGED <<tokVars, pc, lineVars, envVars, termOut, stageLog,
                   uiVars, histVars, rcVars>>

ChildWrite(k) ==
    LET p == procs[k] IN
    /\ p.state = "running"
    /\ ~ProgReads(p.name) \/ p.eof
    /\ p.pending # <<>>
    /\ procs' = [procs EXCEPT ![k].pending = Tail(@),
                              ![k].wrote = Append(@, Head(p.pending))]
    /\ CASE p.stdout.kind = "pipe" ->
              /\ ~PipeFull(pipes[p.stdout.id].buf)
              /\ pipes' = [pipes EXCEPT
                        ![p.stdout.id].buf = Append(@, Head(p.pending)),
                        ![p.stdout.id].written = Append(@, Head(p.pending))]
              /\ UNCHANGED <<files, termOut>>
         [] p.stdout.kind = "file" ->
              /\ files' = [files EXCEPT
                        ![p.stdout.key].data = Append(@, Head(p.pending))]
              /\ UNCHANGED <<pipes, termOut>>
         [] OTHER ->
              /\ termOut' = termOut \o Emit(p.stage, <<Head(p.pending)>>)
              /\ UNCHANGED <<pipes, files>>
    /\ UNCHANGED <<tokVars, pc, lineVars, cwd, pathEnv, pathFile,
                   stageLog, uiVars, histVars, rcVars>>

ChildExit(k) ==
    LET p == procs[k] IN
    /\ p.state = "running"
    /\ ~ProgReads(p.name) \/ p.eof
    /\ p.pending = <<>>
    /\ procs' = [procs EXCEPT ![k].state = "exited"]
    /\ pipes' = IF p.stdout.kind = "pipe"
                THEN [pipes EXCEPT ![p.stdout.id].writerOpen = FALSE]
                ELSE pipes
    /\ UNCHANGED <<tokVars, pc, lineVars, envVars, termOut, stageLog,
                   uiVars, histVars, rcVars>>

ChildStep ==
    /\ pc = "wait"
    /\ \E k \in DOMAIN procs : ChildRead(k) \/ ChildWrite(k) \/ ChildExit(k)

(***************************************************************************)
(* list_path (main.rs 182-221): one action per key event.                  *)
(***************************************************************************)
RemoveAtMutFirst(seq, k) == Tail(seq)

\* 210: Vec::remove
RemoveAt(seq, k) == SubSeq(seq, 1, k - 1) \o SubSeq(seq, k + 1, Len(seq))

\* 201: the selection after Up
UpSelected(sel, len) == IF sel > 0 THEN sel - 1 ELSE len

DownSelectedMutNoWrap(sel, len) == sel + 1

\* 202: the selection after Down
DownSelected(sel, len) == IF sel < len THEN sel + 1 ELSE 0

\* 201
KeyUp ==
    /\ pc = "pathTool"
    /\ selected' = UpSelected(selected, Len(uiPaths))
    /\ UNCHANGED <<tokVars, pc, lineVars, envVars, procVars, uiPaths,
                   histVars, rcVars>>

\* 202
KeyDown ==
    /\ pc = "pathTool"
    /\ selected' = DownSelected(selected, Len(uiPaths))
    /\ UNCHANGED <<tokVars, pc, lineVars, envVars, procVars, uiPaths,
                   histVars, rcVars>>

\* what prompt_line can return as Some(..): trimmed and not empty
PromptInputs == {BinDir, BinTool}

\* 204-208: Enter on the '[+ Add new path]' row; newp = <<>> stands for None
EnterAdd(st, newp) ==
    IF newp = <<>> THEN st
    ELSE LET added == add_to_path(st, newp, FALSE) IN
         [added EXCEPT !.uiPaths = load_persistent_paths(added.pathFile)]

\* 212: the selection after a removal
SelectedAfterRemove(sel, len) == IF sel >= len /\ sel > 0 THEN sel - 1 ELSE sel

\* 209-213: Enter on an entry
EnterRemove(st) ==
    IF st.uiPaths = <<>> THEN st
    ELSE IF st.selected + 1 > Len(st.uiPaths) THEN Panic(st)
    ELSE LET left == RemoveAt(st.uiPaths, st.selected + 1) IN
         [st EXCEPT
            !.uiPaths = left,
            !.pathFile = save_persistent_paths(left),
            !.selected = SelectedAfterRemove(st.selected, Len(left)),
            !.lastOp = [op |-> "remove", input |-> st.uiPaths[st.selected + 1],
                        temporary |-> FALSE, index |-> st.selected]]

\* 203-214; what was printed is wiped by the Clear of the next turn (188)
KeyEnter ==
    /\ pc = "pathTool"
    /\ IF selected = Len(uiPaths)
       THEN \E newp \in PromptInputs \cup {<<>>} :
                \E st \in {EnterAdd(St, newp)} :
                    Becomes([st EXCEPT !.termOut = <<>>])
       ELSE \E st \in {EnterRemove(St)} :
                Becomes([st EXCEPT !.termOut = <<>>])
    /\ UNCHANGED <<tokVars, caller, input, pipeline, pathFile0, rcVars>>

\* 215, 220, and the `continue` of the "pathTool" arm; the locals of
\* list_path are gone
KeyEsc ==
    /\ pc = "pathTool"
    /\ pc' = "exec"
    /\ i' = i + 1
    /\ uiPaths' = <<>>
    /\ selected' = 0
    /\ UNCHANGED <<tokVars, caller, input, pipeline, previous_output, result,
                   envVars, procVars, histVars, rcVars>>

\* 216: any other key
KeyOther ==
    /\ pc = "pathTool"
    /\ UNCHANGED vars

(***************************************************************************)
(* main (335-404) and load_falshrc (311-333).                              *)
(***************************************************************************)
\* load_persistent_into_env, 223-227
RECURSIVE AddAllTemporary(_, _)
AddAllTemporary(st, entries) ==
    IF entries = <<>> THEN st
    ELSE AddAllTemporary(add_to_path(st, Head(entries), TRUE), Tail(entries))

load_persistent_into_env(st) ==
    AddAllTemporary(st, load_persistent_paths(st.pathFile))

\* main 336-344 and 365: PATH, the persisted entries, then load_falshrc up
\* to its loop
MainStartup ==
    /\ pc = "main"
    /\ \E st \in {load_persistent_into_env(
                        [St EXCEPT !.pathEnv = MainInitialPath(pathEnv)])} :
            Becomes([st EXCEPT !.pc = IF rcFile.exists THEN "rc" ELSE "prompt"])
    /\ rcIdx' = 0
    /\ UNCHANGED <<tokVars, caller, input, pipeline, pathFile0, rcFile, rcLog>>

\* the entry of execute_line, 230-234
CallExecuteLine(text, who) ==
    /\ caller' = who
    /\ input' = text
    /\ pipeline' = IF text = <<>> THEN <<>>
                   ELSE [k \in 1..Len(Split(text, "|")) |->
                            Trim(Split(text, "|")[k])]
    /\ i' = 1
    /\ previous_output' = 0
    /\ result' = IF text = <<>> THEN "Ok" ELSE "none"
    /\ pc' = IF text = <<>> THEN "returned" ELSE "exec"
    /\ procs' = <<>>
    /\ pipes' = <<>>
    /\ termOut' = <<>>
    /\ stageLog' = <<>>
    /\ lastOp' = NoOp
    /\ pathFile0' = pathFile
    /\ UNCHANGED <<cwd, files, pathEnv, pathFile, uiVars>>

\* the locals of a call that has returned are gone
ForgetCall ==
    /\ input' = <<>>
    /\ pipeline' = <<>>
    /\ i' = 1
    /\ previous_output' = 0
    /\ result' = "none"
    /\ procs' = <<>>
    /\ pipes' = <<>>
    /\ termOut' = <<>>
    /\ stageLog' = <<>>
    /\ lastOp' = NoOp
    /\ pathFile0' = pathFile

\* 325-331: one turn of the loop over the lines of ~/.falshrc
RcStep ==
    /\ pc = "rc"
    /\ IF rcIdx >= Len(rcFile.lines)
       THEN /\ pc' = "prompt"
            /\ UNCHANGED <<lineVars, envVars, procVars, uiVars, histVars, rcIdx>>
       ELSE LET trimmed == Trim(rcFile.lines[rcIdx + 1]) IN
            IF trimmed = <<>> \/ Head(trimmed) = "#"
            THEN /\ rcIdx' = rcIdx + 1
                 /\ UNCHANGED <<pc, lineVars, envVars, procVars, uiVars, histVars>>
            ELSE /\ CallExecuteLine(trimmed, "rc")
                 /\ UNCHANGED rcIdx
    /\ UNCHANGED <<tokVars, rcFile, rcLog>>

\* 329-331: execute_line has returned to load_falshrc
RcContinue ==
    /\ pc = "returned"
    /\ caller = "rc"
    /\ rcLog' = Append(rcLog, [line |-> rcIdx + 1, text |-> input,
                               result |-> result])
    /\ rcIdx' = rcIdx + 1
    /\ pc' = "rc"
    /\ ForgetCall
    /\ UNCHANGED <<tokVars, caller, envVars, uiVars, rcFile>>

\* 387-398: readline returned Ok(line)
ReadLineOf(line) ==
    LET trimmed == Trim(line) IN
    /\ pc = "prompt"
    /\ IF trimmed = <<>>
       THEN UNCHANGED <<pc, lineVars, envVars, procVars, uiVars, histVars>>
       ELSE IF trimmed = <<"exit">>
       THEN /\ pc' = "exited"
            /\ UNCHANGED <<lineVars, envVars, procVars, uiVars, histVars>>
       ELSE CallExecuteLine(trimmed, "interactive")
    /\ UNCHANGED <<tokVars, rcVars>>

\* 391: readline returned Eof
ReadEof ==
    /\ pc = "prompt"
    /\ pc' = "exited"
    /\ UNCHANGED <<tokVars, lineVars, envVars, procVars, uiVars, histVars, rcVars>>

\* 398-400: execute_line has returned to the interactive loop
MainContinue ==
    /\ pc = "returned"
    /\ caller = "interactive"
    /\ pc' = "prompt"
    /\ ForgetCall
    /\ UNCHANGED <<tokVars, caller, envVars, uiVars, rcVars>>

(***************************************************************************)
(* The lines fed to the shell.                                             *)
(***************************************************************************)
\* words joined by single spaces
Cmd(words) == JoinWith([k \in 1..Len(words) |-> <<words[k]>>], " ")

\* stage strings joined by " | "
RECURSIVE JoinBar(_)
JoinBar(stages) ==
    IF stages = <<>> THEN <<>>
    ELSE IF Len(stages) = 1 THEN Head(stages)
    ELSE Head(stages) \o <<" ", "|", " ">> \o JoinBar(Tail(stages))

CoreStages ==
    { Cmd(<<"echo", "hello">>),
      Cmd(<<"cat">>),
      Cmd(<<"nosuch">>),
      Cmd(<<"cat", ">">>),
      Cmd(<<"cd", "n">>),
      <<>>,
      Cmd(<<"big">>),
      Cmd(<<"echo", "hello", ">", "f">>) }

ExtraLines ==
    { <<"echo", " ", "hello", " ", "|", " ", "wc", " ", "-w">>,
      Cmd(<<"cat", "<", "f">>),
      <<"echo", " ", "hello", " ", "|", " ", "cat", " ", "<", " ", "f">>,
      Cmd(<<"pwd">>),
      <<"cd", " ", "n", " ", "|", " ", "pwd">>,
      <<"cd", " ", "d", " ", "|", " ", "pwd">>,
      <<"echo", " ", "hello", " ", "|", " ", "pwd">>,
      <<"echo", " ", "hello", " ", "|", " ", "pwd", " ", "|", " ", "cat">>,
      Cmd(<<"cd">>),
      Cmd(<<"cd", "d">>),
      <<"cd", " ", "/", "h">>,
      Cmd(<<"export">>),
      <<"export", " ", "K", "=", "v">>,
      Cmd(<<"export", "K">>),
      <<"export", " ", "=", "v">>,
      Cmd(<<"echo", "*">>),
      <<"echo", " ", "*", "*", "*">>,
      Cmd(<<"cat", "<", "g", ">", "f">>),
      Cmd(<<"cat", ">", "f", "<", "g">>),
      Cmd(<<"cat", ">", "f", "<">>),
      Cmd(<<">", "f">>),
      Cmd(<<"echo", "hello", ">", "d">>),
      <<"echo", " ", "'", "a", " ", "|", " ", "b", "'">>,
      <<" ", "\t">>,
      Cmd(<<"exit">>) }

Lines == {JoinBar(ss) : ss \in SeqsUpTo(CoreStages, MaxStages) \ {<<>>}}
         \cup ExtraLines

ReadLine == pc = "prompt" /\ \E line \in Lines : ReadLineOf(line)

PathInputs == {BinDir, BinTool}

\* the last line holds a quoted path that ends in a carriage return
PathLines ==
    { <<"addToPath", " ">> \o p : p \in PathInputs }
    \cup { <<"addToPath", " ">> \o p \o <<" ", "--temp">> : p \in PathInputs }
    \cup { <<"addToPath", " ", "--temp", " ">> \o p : p \in PathInputs }
    \cup { Cmd(<<"addToPath">>), Cmd(<<"pathTool">>) }
    \cup { <<"addToPath", " ", "\"">> \o CrPath \o <<"\"">> }

ReadPathLine ==
    /\ pc = "prompt"
    /\ Len(load_persistent_paths(pathFile)) <= MaxPersisted
    /\ \E line \in PathLines : ReadLineOf(line)

(***************************************************************************)
(* The specifications.                                                     *)
(***************************************************************************)
TokIdle ==
    /\ tInput = <<>>
    /\ tArgs = <<>>
    /\ tRe = <<>>
    /\ tPc = "input"

CallIdle ==
    /\ caller = "interactive"
    /\ input = <<>>
    /\ pipeline = <<>>
    /\ i = 1
    /\ previous_output = 0
    /\ result = "none"
    /\ procs = <<>>
    /\ pipes = <<>>
    /\ termOut = <<>>
    /\ stageLog = <<>>
    /\ uiPaths = <<>>
    /\ selected = 0
    /\ lastOp = NoOp
    /\ rcIdx = 0
    /\ rcLog = <<>>

NoRc == [exists |-> FALSE, lines |-> <<>>]

NoPathFile == [exists |-> FALSE, text |-> <<>>]

\* The executor: the interactive loop after a start-up without ~/.falshrc
\* and ~/.falsh_path, in the home directory, with PATH = /bin; the file g
\* exists and f does not.
Init ==
    /\ TokIdle
    /\ CallIdle
    /\ pc = "prompt"
    /\ cwd = HomeDir
    /\ files = [n \in FileNames |->
                  IF n = "g" THEN [exists |-> TRUE, data |-> <<"data", "\n">>]
                  ELSE NoFile]
    /\ pathEnv = BinDir
    /\ pathFile = NoPathFile
    /\ pathFile0 = NoPathFile
    /\ rcFile = NoRc

Next ==
    \/ ReadLine
    \/ ReadEof
    \/ ExecStage
    \/ WaitReturn
    \/ ChildStep
    \/ MainContinue

Spec == Init /\ [][Next]_vars

NoDup(seq) == \A j, k \in 1..Len(seq) : j # k => seq[j] # seq[k]

\* The PATH store: main from its first line, with the PATH of the parent
\* process and a ~/.falsh_path left by an earlier session, then addToPath and
\* pathTool lines.
InitialPaths == {<<"/", "usr">>, BinDir}

InitialPathFiles ==
    {NoPathFile}
    \cup {save_persistent_paths(l) :
            l \in {q \in SeqsUpTo(PromptInputs, Cardinality(PromptInputs)) :
                        NoDup(q)}}

InitPath ==
    /\ TokIdle
    /\ CallIdle
    /\ pc = "main"
    /\ cwd = HomeDir
    /\ files = [n \in FileNames |-> NoFile]
    /\ pathEnv \in InitialPaths
    /\ pathFile \in InitialPathFiles
    /\ pathFile0 = pathFile
    /\ rcFile = NoRc

NextPath ==
    \/ MainStartup
    \/ ReadPathLine
    \/ ExecStage
    \/ KeyUp
    \/ KeyDown
    \/ KeyEnter
    \/ KeyEsc
    \/ KeyOther
    \/ MainContinue

SpecPath == InitPath /\ [][NextPath]_vars

\* The startup-script runner: main from its first line with a ~/.falshrc of
\* up to MaxRcLines lines, up to the first prompt.
RcLineSet ==
    { <<" ", "\t">>,
      <<"#", " ", "c">>,
      <<" ", "#", "c">>,
      Cmd(<<"pwd">>),
      <<" ", "pwd", " ">>,
      Cmd(<<"nosuch">>),
      Cmd(<<"echo", "hello">>),
      Cmd(<<"cd">>),
      <<"echo", " ", "*", "*", "*">> }

RcFiles ==
    {NoRc} \cup {[exists |-> TRUE, lines |-> l] : l \in SeqsUpTo(RcLineSet, MaxRcLines)}

InitRc ==
    /\ TokIdle
    /\ CallIdle
    /\ pc = "main"
    /\ cwd = HomeDir
    /\ files = [n \in FileNames |-> NoFile]
    /\ pathEnv = BinDir
    /\ pathFile = NoPathFile
    /\ pathFile0 = NoPathFile
    /\ rcFile \in RcFiles

NextRc ==
    \/ MainStartup
    \/ RcStep
    \/ RcContinue
    \/ ExecStage
    \/ WaitReturn
    \/ ChildStep

SpecRc == InitRc /\ [][NextRc]_vars

(***************************************************************************)
(* The tokenizer specification: split_args applied to every string over    *)
(* TokAlphabet up to MaxLen characters, then applied again to its own      *)
(* output joined with single spaces.                                       *)
(***************************************************************************)
TokAlphabet == {"a", " ", "'", "\"", "\t"}

InitTok ==
    /\ tInput \in SeqsUpTo(TokAlphabet, MaxLen)
    /\ tArgs = <<>>
    /\ tRe = <<>>
    /\ tPc = "input"
    /\ CallIdle
    /\ pc = "exited"
    /\ cwd = HomeDir
    /\ files = [n \in FileNames |-> NoFile]
    /\ pathEnv = BinDir
    /\ pathFile = NoPathFile
    /\ pathFile0 = NoPathFile
    /\ rcFile = NoRc

TokSplit ==
    /\ tPc = "input"
    /\ tArgs' = split_args(tInput)
    /\ tPc' = "split"
    /\ UNCHANGED <<tInput, tRe, shellVars>>

TokRejoin ==
    /\ tPc = "split"
    /\ tRe' = split_args(JoinWith(tArgs, " "))
    /\ tPc' = "rejoined"
    /\ UNCHANGED <<tInput, tArgs, shellVars>>

NextTok == TokSplit \/ TokRejoin

SpecTok == InitTok /\ [][NextTok]_vars

(***************************************************************************)
(* The reference tokenizer of claim C6, by matching quotes instead of      *)
(* toggling flags: a quote opens a region that runs to the next quote of   *)
(* the same kind (or to the end of the input), the region is copied        *)
(* verbatim into the current token, the two quotes are dropped; an         *)
(* unquoted space ends the current token; empty tokens are not emitted.    *)
(***************************************************************************)
IndexOf(s, ch) ==
    IF \E k \in 1..Len(s) : s[k] = ch
    THEN CHOOSE k \in 1..Len(s) : s[k] = ch /\ \A j \in 1..(k-1) : s[j] # ch
    ELSE 0

RECURSIVE RefScan(_, _, _)
RefScan(s, done, tok) ==
    IF s = <<>> THEN (IF tok = <<>> THEN done ELSE Append(done, tok))
    ELSE IF Head(s) \in {"'", "\""} THEN
        LET close == IndexOf(Tail(s), Head(s)) IN
        IF close = 0
        THEN RefScan(<<>>, done, tok \o Tail(s))
        ELSE RefScan(SubSeq(Tail(s), close + 1, Len(Tail(s))), done,
                     tok \o SubSeq(Tail(s), 1, close - 1))
    ELSE IF Head(s) = " " THEN
        RefScan(Tail(s), IF tok = <<>> THEN done ELSE Append(done, tok), <<>>)
    ELSE RefScan(Tail(s), done, Append(tok, Head(s)))

RefTokenize(s) == RefScan(s, <<>>, <<>>)

OnlySpaces(s) == \A k \in 1..Len(s) : s[k] = " "

OnlyWhitespace(s) == \A k \in 1..Len(s) : s[k] \in {" ", "\t"}

\* C6 (as amended): split_args returns the token sequence of the reference
\* tokenizer, emits no empty token, and gives the empty sequence for the
\* empty input and for inputs made of space characters only.
C6_SplitArgsIsReference ==
    tPc # "input" =>
        /\ tArgs = RefTokenize(tInput)
        /\ \A k \in 1..Len(tArgs) : tArgs[k] # <<>>
        /\ (OnlySpaces(tInput) => tArgs = <<>>)

\* C6 (original): as above, and every whitespace-only input (spaces or tabs)
\* gives the empty sequence.
C6_Original ==
    tPc # "input" =>
        /\ tArgs = RefTokenize(tInput)
        /\ \A k \in 1..Len(tArgs) : tArgs[k] # <<>>
        /\ (OnlyWhitespace(tInput) => tArgs = <<>>)

\* C6 witness: a nested-quote input has been split: the double-quoted region
\* of "' '" keeps the two single quotes and the space between them in one token.
C6_Witness ==
    /\ tPc = "split"
    /\ tInput = <<"\"", "'", " ", "'", "\"">>
    /\ tArgs = << <<"'", " ", "'">> >>

(***************************************************************************)
(* Claim C7: re-tokenizing the tokens joined with single spaces.           *)
(* QuoteScan follows the flags of split_args through the input and         *)
(* collects the characters that are copied while a quoted region is open.  *)
(***************************************************************************)
RECURSIVE QuoteScan(_, _, _, _)
QuoteScan(s, in_single, in_double, quoted) ==
    IF s = <<>>
    THEN [in_single |-> in_single, in_double |-> in_double, quoted |-> quoted]
    ELSE IF Head(s) = "'" /\ ~in_double
         THEN QuoteScan(Tail(s), ~in_single, in_double, quoted)
    ELSE IF Head(s) = "\"" /\ ~in_single
         THEN QuoteScan(Tail(s), in_single, ~in_double, quoted)
    ELSE QuoteScan(Tail(s), in_single, in_double,
                   IF in_single \/ in_double THEN quoted \cup {Head(s)}
                                            ELSE quoted)

BalancedQuotes(s) ==
    LET q == QuoteScan(s, FALSE, FALSE, {}) IN ~q.in_single /\ ~q.in_double

QuotedChars(s) == QuoteScan(s, FALSE, FALSE, {}).quoted

\* C7 (as amended): for every input with balanced quotes whose quoted regions
\* contain neither a space nor a quote character, joining the tokens with a
\* single space and tokenizing again yields the same token sequence.
C7_RejoinStable ==
    (/\ tPc = "rejoined"
     /\ BalancedQuotes(tInput)
     /\ QuotedChars(tInput) \cap {" ", "'", "\""} = {})
        => tRe = tArgs

\* C7 (original): for every input with balanced quotes, joining the tokens
\* with a single space and tokenizing again yields the same token sequence.
C7_Original ==
    (tPc = "rejoined" /\ BalancedQuotes(tInput)) => tRe = tArgs

\* C7 witness: the balanced input 'a' a (a quoted token, then a plain one)
\* has been split, rejoined and split again, with the same two tokens.
C7_Witness ==
    /\ tPc = "rejoined"
    /\ tInput = <<"'", "a", "'", " ", "a">>
    /\ tArgs = << <<"a">>, <<"a">> >>
    /\ tRe = tArgs

(***************************************************************************)
(* Claims on execute_line, under Spec.                                     *)
(***************************************************************************)
IsRedirect(tok) == tok \in {<<">">>, <<"<">>}

IsPrefix(a, b) == Len(a) <= Len(b) /\ SubSeq(b, 1, Len(a)) = a

\* some stage of the line at hand ends in a redirection operator
DanglingRedirect ==
    \E k \in DOMAIN pipeline :
        LET a == split_args(pipeline[k]) IN a # <<>> /\ IsRedirect(a[Len(a)])

\* C1: for every line in which some stage has a '>' or '<' with no token
\* after it, the execute_line call spawns no process and, once it has
\* returned, its result is an error.
C1_DanglingRedirectFails ==
    DanglingRedirect =>
        /\ procs = <<>>
        /\ pc = "returned" => result # "Ok"

\* C2: once a stage of a line has failed (spawn failure, redirection failure,
\* usage error of a built-in, cd to a path that is not there), no later stage
\* of that line is dispatched or spawned.
C2_FailureStopsLine ==
    \A j, k \in DOMAIN stageLog :
        (j < k /\ stageLog[j].failed) => stageLog[k].kind = "empty"

\* C3: no error raised while a line is executed terminates the shell
\* process.
C3_NoErrorEndsShell == pc # "panicked"

\* C4: within one execute_line call the children are spawned in the order
\* of their stages, at most one child is alive at any time, and every child
\* but the last one spawned has exited.
C4_OneChildAtATime ==
    /\ Cardinality({k \in DOMAIN procs : procs[k].state # "exited"}) <= 1
    /\ \A k \in 1..(Len(procs) - 1) :
            /\ procs[k].state = "exited"
            /\ procs[k].stage < procs[k + 1].stage

\* C4 witness: the child of stage 1 has exited and the child of stage 2 is
\* running.
C4_Witness ==
    /\ Len(procs) = 2
    /\ procs[1].stage = 1 /\ procs[1].state = "exited"
    /\ procs[2].stage = 2 /\ procs[2].state = "running"

\* every stage of the line at hand is external and has no redirection
PlainPipeline ==
    /\ pipeline # <<>>
    /\ \A k \in DOMAIN pipeline :
            LET a == split_args(pipeline[k]) IN
            /\ a # <<>>
            /\ a[1] \notin Builtins
            /\ \A m \in DOMAIN a : ~IsRedirect(a[m])

\* what each child with a pipe as standard output writes fits in the pipe
OutputsFit ==
    \A k \in DOMAIN procs :
        procs[k].stdout.kind = "pipe" =>
            Len(procs[k].wrote) + Len(procs[k].pending) <= PipeCap

EchoWc == <<"echo", " ", "hello", " ", "|", " ", "wc", " ", "-w">>

\* C5: in a line of external stages without redirection whose non-final
\* outputs fit in the pipe, the child of stage 1 has the shell's own input
\* and reads it, the child of every later stage has as standard input the
\* pipe that the preceding child has as standard output and has read, at
\* its end-of-file, exactly what that child wrote; only the child of the
\* last stage has the shell's own output and writes to it; and
\* 'echo hello | wc -w' writes 1.
C5_PipelineWiring ==
    (PlainPipeline /\ OutputsFit) =>
        /\ \A k \in DOMAIN procs :
              /\ procs[k].stage = k
              /\ (procs[k].stdout = Inherit) = (k = Len(pipeline))
              /\ IF k = 1
                 THEN /\ procs[k].stdin = Inherit
                      /\ procs[k].eof => procs[k].got = TermInput
                 ELSE /\ procs[k].stdin.kind = "pipe"
                      /\ procs[k].stdin = procs[k - 1].stdout
                      /\ IsPrefix(procs[k].got, procs[k - 1].wrote)
                      /\ procs[k].eof => procs[k].got = procs[k - 1].wrote
        /\ \A m \in DOMAIN termOut : termOut[m].src = Len(pipeline)
        /\ (pc = "returned" /\ result = "Ok") =>
              /\ Len(procs) = Len(pipeline)
              /\ \A k \in DOMAIN procs : ProgReads(procs[k].name) => procs[k].eof
        /\ (pc = "returned" /\ input = EchoWc) =>
              termOut = Emit(2, <<"1", "\n">>)

\* C5 witness: 'echo hello | wc -w' has returned Ok; wc read "hello" and
\* the line terminator from the pipe and wrote 1.
C5_Witness ==
    /\ pc = "returned"
    /\ result = "Ok"
    /\ input = EchoWc
    /\ procs[2].got = <<"hello", "\n">>
    /\ termOut = Emit(2, <<"1", "\n">>)

(***************************************************************************)
(* Claims on the PATH store, under SpecPath.                               *)
(***************************************************************************)
PersistedList == load_persistent_paths(pathFile)

PathEntries == Split(pathEnv, ":")

Occurrences(seq, x) == Cardinality({k \in DOMAIN seq : seq[k] = x})

\* C8: after start-up, and after every add_to_path and every removal, the
\* resolved form of every entry of the persisted list is in the
\* colon-separated PATH exactly once.
C8_PersistedOnceInPath ==
    pc # "main" =>
        \A k \in DOMAIN PersistedList :
            Occurrences(PathEntries, Resolve(PersistedList[k])) = 1

\* C9: every step from a persisted list without duplicates leaves a list
\* without duplicates that is the old list, the old list with one new string
\* appended, or the old list with one entry removed; a non-temporary add of
\* a string that the list holds leaves the list as it is.
C9_PersistedListDiscipline ==
    [][LET old == load_persistent_paths(pathFile)
           new == load_persistent_paths(pathFile')
       IN NoDup(old) =>
            /\ NoDup(new)
            /\ \/ new = old
               \/ \E k \in DOMAIN new : new = Append(old, new[k])
               \/ \E k \in DOMAIN old : new = RemoveAt(old, k)
            /\ (/\ lastOp'.op = "add"
                /\ ~lastOp'.temporary
                /\ Contains(old, lastOp'.input)) => new = old]_vars

\* the line at hand is 'addToPath' with two arguments, one of them --temp
TempAddLine ==
    /\ Len(pipeline) = 1
    /\ LET a == split_args(pipeline[1]) IN
       /\ Len(a) = 3
       /\ a[1] = <<"addToPath">>
       /\ Contains(a, FlagTemp)

\* C10: when 'addToPath' with --temp before or after its path has returned,
\* the resolved form of the path is in PATH, the flag is not, and
\* ~/.falsh_path is as it was when the line was entered;
\* and after start-up ~/.falsh_path is as main found it.
C10_TempAddsPathOnly ==
    /\ (pc = "returned" /\ TempAddLine) =>
          LET a == split_args(pipeline[1])
              path == IF a[2] = FlagTemp THEN a[3] ELSE a[2]
          IN /\ Contains(PathEntries, Resolve(path))
             /\ ~Contains(PathEntries, FlagTemp)
             /\ pathFile = pathFile0
    /\ pc = "prompt" => pathFile = pathFile0

(***************************************************************************)
(* Claims on list_path, under SpecPath.                                    *)
(***************************************************************************)
\* seq without its entry at the 0-based index idx
WithoutIndex(seq, idx) ==
    [k \in 1..(Len(seq) - 1) |-> IF k <= idx THEN seq[k] ELSE seq[k + 1]]

\* a step of list_path with an entry selected that is more than a move of
\* the selection: Enter on that entry
EnterOnEntry ==
    /\ pc = "pathTool"
    /\ pc' = "pathTool"
    /\ selected < Len(uiPaths)
    /\ <<uiPaths, pathFile, lastOp>>' # <<uiPaths, pathFile, lastOp>>

\* C11: Enter on an entry of the path-management view removes from the list
\* exactly the entry at the selected index, writes the remaining entries to
\* ~/.falsh_path one per line in their order, and leaves PATH as it is.
C11_RemovalDeletesSelected ==
    [][EnterOnEntry =>
        /\ uiPaths' = WithoutIndex(uiPaths, selected)
        /\ lastOp'.op = "remove"
        /\ lastOp'.input = uiPaths[selected + 1]
        /\ pathFile'.exists
        /\ Split(pathFile'.text, "\n") = Append(uiPaths', <<>>)
        /\ pathEnv' = pathEnv]_vars

\* C11 witness: the second of three entries has been removed; the first and
\* the third are left, in this order, in the view and in the file.
C11_Witness ==
    /\ pc = "pathTool"
    /\ lastOp.op = "remove"
    /\ lastOp.index = 1
    /\ Len(uiPaths) = 2
    /\ lastOp.input \notin Range(uiPaths)
    /\ load_persistent_paths(pathFile) = uiPaths

\* a step of list_path that moves the selection and nothing else
MoveOnly ==
    /\ pc = "pathTool"
    /\ pc' = "pathTool"
    /\ selected' # selected
    /\ <<uiPaths, pathFile, lastOp>>' = <<uiPaths, pathFile, lastOp>>

\* C19: in the path-management view the selection stays within
\* 0..Len(paths), list_path never removes at an index past the end of the
\* list, and a move of the selection goes one row up or down, from row 0 up
\* to the '[+ Add new path]' row Len(paths) and from that row down to row 0.
C19_SelectionInRange ==
    /\ [](pc = "pathTool" => selected \in 0..Len(uiPaths))
    /\ [](pc # "panicked")
    /\ [][MoveOnly =>
            \/ selected > 0 /\ selected' = selected - 1
            \/ selected = 0 /\ selected' = Len(uiPaths)
            \/ selected < Len(uiPaths) /\ selected' = selected + 1
            \/ selected = Len(uiPaths) /\ selected' = 0]_vars

\* C19 witness: the last of two entries was removed while it was selected;
\* the selection moved back onto the entry that is left.
C19_Witness ==
    /\ pc = "pathTool"
    /\ lastOp.op = "remove"
    /\ lastOp.index = 1
    /\ Len(uiPaths) = 1
    /\ selected = 0

(***************************************************************************)
(* Further claims on execute_line, under Spec.                             *)
(***************************************************************************)
\* seg is 'cd <path>' with a path that cannot be entered from dir
FailingCd(seg, dir) ==
    LET a == split_args(seg) IN
    /\ Len(a) > 1
    /\ a[1] = <<"cd">>
    /\ ChdirTarget(dir, a[2]) = <<>>

CdThenPwd == <<"cd", " ", "n", " ", "|", " ", "pwd">>

\* C12: a 'cd <path>' stage whose path cannot be entered leaves the working
\* directory as it is, a following 'pwd' prints that directory, and the
\* execute_line call of a line that is such a cd returns an error.
C12_FailedCdReportsError ==
    /\ [][(/\ pc = "exec"
           /\ i <= Len(pipeline)
           /\ FailingCd(pipeline[i], cwd)) => cwd' = cwd]_vars
    /\ []((pc = "returned" /\ input = CdThenPwd) =>
            /\ Len(termOut) > Len(cwd)
            /\ SubSeq(termOut, Len(termOut) - Len(cwd), Len(termOut))
                  = Emit(0, Append(cwd, "\n")))
    /\ []((/\ pc = "returned"
           /\ Len(pipeline) = 1
           /\ FailingCd(pipeline[1], cwd)) => result # "Ok")

(***************************************************************************)
(* Claim on load_falshrc, under SpecRc.                                    *)
(***************************************************************************)
\* the lines of the script that are neither blank nor comments, trimmed,
\* each with its 1-based position in the file
RECURSIVE RcExpected(_, _)
RcExpected(script, pos) ==
    IF pos > Len(script) THEN <<>>
    ELSE LET t == Trim(script[pos]) IN
         (IF t = <<>> \/ Head(t) = "#" THEN <<>>
          ELSE << [line |-> pos, text |-> t] >>)
         \o RcExpected(script, pos + 1)

RcCalls == [k \in DOMAIN rcLog |-> [line |-> rcLog[k].line, text |-> rcLog[k].text]]

\* C13: the execute_line calls that load_falshrc has made and seen return
\* are, in order and with their 1-based positions, the first of the lines of
\* the script that are neither blank nor comments, and once the runner is no
\* longer at work they are all of them: a failing line stops no later line.
C13_RcRunsEveryLine ==
    /\ IsPrefix(RcCalls, RcExpected(rcFile.lines, 1))
    /\ pc \notin {"main", "rc", "exec", "wait", "returned"} =>
            RcCalls = RcExpected(rcFile.lines, 1)

\* the tokens of the stage that child k was spawned for
StageArgs(k) == split_args(pipeline[procs[k].stage])

\* C14: a child whose stage is followed by empty stages only does not have
\* a pipe as standard output.
C14_EmptyStagesDoNotCount ==
    \A k \in DOMAIN procs :
        (\A m \in (procs[k].stage + 1)..Len(pipeline) :
              split_args(pipeline[m]) = <<>>)
            => procs[k].stdout.kind # "pipe"

\* the stage of child k holds '> file'
HasOutFile(k) ==
    /\ Position(StageArgs(k), <<">">>) # 0
    /\ Position(StageArgs(k), <<">">>) < Len(StageArgs(k))

OutFile(k) == StageArgs(k)[Position(StageArgs(k), <<">">>) + 1]

\* the stage of child k holds '< file'
HasInFile(k) ==
    /\ Position(StageArgs(k), <<"<">>) # 0
    /\ Position(StageArgs(k), <<"<">>) < Len(StageArgs(k))

InFile(k) == StageArgs(k)[Position(StageArgs(k), <<"<">>) + 1]

\* C15: the child of a stage that holds '> file' has that file as standard
\* output, whether the stage is the last or not; and a step of execute_line
\* that does not end the shell creates or truncates a file only when it
\* spawns a child with that file as standard output.
C15_OutFileIsStdout ==
    /\ [](\A k \in DOMAIN procs :
            HasOutFile(k) =>
                /\ procs[k].stdout.kind = "file"
                /\ <<procs[k].stdout.key>> = OutFile(k))
    /\ [][\A n \in FileNames :
            (pc = "exec" /\ pc' # "panicked" /\ files'[n] # files[n]) =>
                /\ Len(procs') = Len(procs) + 1
                /\ procs'[Len(procs')].stdout = FileHandle(n)]_vars

\* C16: the child of a stage that holds both '< infile' and '> outfile', in
\* either order, has infile as standard input and outfile as standard
\* output, and gets none of the operators and file names as arguments.
C16_BothRedirectionsApply ==
    \A k \in DOMAIN procs :
        (HasOutFile(k) /\ HasInFile(k) /\ procs[k].stage = Len(pipeline)) =>
            /\ procs[k].stdin.kind = "file"
            /\ <<procs[k].stdin.key>> = InFile(k)
            /\ procs[k].stdout.kind = "file"
            /\ <<procs[k].stdout.key>> = OutFile(k)
            /\ \A m \in DOMAIN procs[k].args :
                  procs[k].args[m] \notin {<<">">>, <<"<">>, InFile(k), OutFile(k)}

\* a running child has more to write and the pipe it writes to is full
Blocked ==
    \E k \in DOMAIN procs :
        /\ procs[k].state = "running"
        /\ procs[k].stdout.kind = "pipe"
        /\ procs[k].pending # <<>>
        /\ Len(pipes[procs[k].stdout.id].buf) = PipeCap

BigThenCat == <<"big", " ", "|", " ", "cat">>

\* C17: once a child has more to write than fits in the pipe to the next
\* stage, the call is stuck: the shell waits for this child, the child waits
\* for room in the pipe, no child that would read the pipe exists, and no
\* step is ever taken again; so the call of 'big | cat' never returns.
C17_FullPipeBlocksForever ==
    /\ [](Blocked => /\ pc = "wait"
                     /\ procs[Len(procs)].state = "running"
                     /\ \A k \in DOMAIN procs :
                            procs[k].stdin # procs[Len(procs)].stdout)
    /\ [][~Blocked]_vars
    /\ [](input = BigThenCat => pc # "returned")

\* C17 witness: in 'big | cat' the child of big has filled the pipe and has
\* more to write; cat has not been spawned.
C17_Witness ==
    /\ input = BigThenCat
    /\ pc = "wait"
    /\ Len(procs) = 1
    /\ Blocked

\* the stage of number m is a built-in or empty
BuiltinOrEmpty(m) ==
    LET a == split_args(pipeline[m]) IN a = <<>> \/ a[1] \in Builtins

EchoCdCat ==
    <<"echo", " ", "hello", " ", "|", " ", "cd", " ", "n", " ", "|", " ", "cat">>

\* C18: a child spawned after built-in (or empty) stages, with no '<' in
\* its stage, has as standard input the pipe that the preceding child has
\* as standard output and reads from it what that child wrote; what the
\* built-ins print is written by the shell itself to its own output; and
\* when the call has returned, the pipe of a last child that is followed by
\* built-in or empty stages only still holds all that this child wrote and
\* is the standard input of no child.
C18_BuiltinsLeaveThePipe ==
    /\ \A k \in 2..Len(procs) :
          (/\ Position(StageArgs(k), <<"<">>) = 0
           /\ \A m \in (procs[k - 1].stage + 1)..(procs[k].stage - 1) :
                  BuiltinOrEmpty(m)) =>
             /\ procs[k - 1].stdout.kind = "pipe"
             /\ procs[k].stdin = procs[k - 1].stdout
             /\ procs[k].eof => procs[k].got = procs[k - 1].wrote
    /\ \A m \in DOMAIN stageLog :
          stageLog[m].kind = "builtin" =>
              \A k \in DOMAIN procs : procs[k].stage # stageLog[m].stage
    /\ (pc = "returned" /\ procs # <<>>) =>
          LET last == procs[Len(procs)] IN
          (/\ last.stage < Len(pipeline)
           /\ \A m \in (last.stage + 1)..Len(pipeline) : BuiltinOrEmpty(m)) =>
             /\ last.stdout.kind = "pipe"
             /\ pipes[last.stdout.id].buf = last.wrote
             /\ \A k \in DOMAIN procs : procs[k].stdin # last.stdout

\* C18 witness: 'echo hello | cd n | cat' has returned; cd printed its
\* failure on the shell's output and cat read and wrote what echo wrote.
C18_Witness ==
    /\ input = EchoCdCat
    /\ pc = "returned"
    /\ Len(procs) = 2
    /\ procs[2].got = <<"hello", "\n">>
    /\ termOut = Emit(0, <<"cd failed", "\n">>) \o Emit(3, <<"hello", "\n">>)

=============================================================================
